---- MODULE Spec2Model ----
(***************************************************************************)
(* Game of Life grid engine (src/src/lib.rs): the Universe's width, height *)
(* and flat row-major cell buffer, and every operation that mutates them.  *)
(*                                                                         *)
(* u32 values are held as integers.  Within the bounds of the model the    *)
(* source's arithmetic leaves 0..2^32-1 only in the two subtractions of    *)
(* gen_pulsar (the subtractions of live_neighbor_count run only inside the *)
(* loops of tick, which are empty when a dimension is 0).  There a build   *)
(* with overflow checks panics and a build without them wraps; a wrapped   *)
(* value is held by its two's-complement representative, so that sums and  *)
(* products of wrapped values stay exact modulo 2^32, and a negative       *)
(* representative stands for a value of at least 2^31, beyond any buffer.  *)
(*                                                                         *)
(* A definition introduced as "faulty variant" is not part of the model:   *)
(* it is the definition after it with a plausible slip, and shows that a   *)
(* property below depends on the definition it varies.                     *)
(***************************************************************************)
EXTENDS Integers, Sequences, FiniteSets

VARIABLES
    width,            \* Universe.width
    height,           \* Universe.height
    cells,            \* Universe.cells, cells[idx + 1] is the source's cells[idx]
    overflow_checks,  \* whether the build panics on u32 overflow (debug) or wraps
    fault,            \* "none", or the panic that ended the last call
    call,             \* the last call made on the Universe and its arguments
    pre,              \* the Universe as it was when the last call was made
    log               \* the calls made since the buffer was last reallocated

vars == <<width, height, cells, overflow_checks, fault, call, pre, log>>

(***************************************************************************)
(* Bounds of the model.                                                    *)
(***************************************************************************)
\* Grids of at most MaxSide columns and rows and at most MaxCells cells are
\* explored with every content.
MaxSide == 5
MaxCells == 9
\* Side of the grids on which the stamps are explored.
LargeDim == 19
\* Stamps and toggles per logged run, and generations per logged run.
MaxEdits == 2
MaxTicks == 3
\* Longest list handed to set_cells.
MaxList == 1

(***************************************************************************)
(* Cell                                                                    *)
(***************************************************************************)
Dead == 0
Alive == 1

toggle(cell) == IF cell = Dead THEN Alive ELSE Dead
birth(cell) == Alive
kill(cell) == Dead

(***************************************************************************)
(* Universe: a record [width, height, cells, fault]; fault is the panic a  *)
(* method ended with, "none" when it returned.                             *)
(***************************************************************************)
Universe(w, h, c, f) == [width |-> w, height |-> h, cells |-> c, fault |-> f]

\* Vec indexing self.cells[idx]: panics unless idx < len.
InBounds(c, idx) == idx >= 0 /\ idx < Len(c)
At(c, idx) == c[idx + 1]
Put(c, idx, v) == [c EXCEPT ![idx + 1] = v]

AllDead(n) == [i \in 1..n |-> Dead]

get_index(self, row, column) == row * self.width + column
get_row(self, index) == index \div self.width
get_col(self, index) == index % self.width

\* Faulty variant of new: 'and' for 'or' in the seed rule.
new_broken ==
    Universe(64, 64,
             [i \in 1..(64 * 64) |->
                 IF (i - 1) % 2 = 0 /\ (i - 1) % 7 = 0 THEN Alive ELSE Dead],
             "none")
new ==
    LET w == 64
        h == 64
    IN  Universe(w, h,
                 [i \in 1..(w * h) |->
                     IF (i - 1) % 2 = 0 \/ (i - 1) % 7 = 0 THEN Alive ELSE Dead],
                 "none")

\* Faulty variant of set_width: the old cells are carried over.
set_width_keep(self, w) ==
    Universe(w, self.height,
             [i \in 1..(w * self.height) |->
                 IF i <= Len(self.cells) THEN self.cells[i] ELSE Dead],
             "none")
set_width(self, w) ==
    Universe(w, self.height, AllDead(w * self.height), "none")

\* Faulty variant of set_height: the buffer is sized by the old height.
set_height_stale(self, h) ==
    Universe(self.width, h, AllDead(self.width * self.height), "none")
set_height(self, h) ==
    Universe(self.width, h, AllDead(self.width * h), "none")

kill_all(self) ==
    Universe(self.width, self.height, AllDead(self.width * self.height), "none")

\* set_cells: the pairs in order; the first out-of-bounds index panics and
\* the cells set before it stay set.
RECURSIVE set_cells_from(_, _, _)
set_cells_from(self, list, k) ==
    IF k > Len(list) THEN self
    ELSE LET idx == get_index(self, list[k][1], list[k][2])
         IN  IF ~InBounds(self.cells, idx)
             THEN [self EXCEPT !.fault = "index_out_of_bounds"]
             ELSE set_cells_from([self EXCEPT !.cells = Put(self.cells, idx, Alive)],
                                 list, k + 1)
set_cells(self, list) == set_cells_from(self, list, 1)

\* Faulty variant of gen_spaceship: the last offset repeats the fourth.
gen_spaceship_shifted(self, row, col) ==
    set_cells(self, << <<row + 1, col + 2>>, <<row + 2, col + 3>>,
                       <<row + 3, col + 1>>, <<row + 3, col + 2>>,
                       <<row + 3, col + 2>> >>)
gen_spaceship(self, row, col) ==
    set_cells(self, << <<row + 1, col + 2>>, <<row + 2, col + 3>>,
                       <<row + 3, col + 1>>, <<row + 3, col + 2>>,
                       <<row + 3, col + 3>> >>)

\* Faulty variant of toggle_cell: the cell is set Alive, not flipped.
toggle_cell_sticky(self, row, column) ==
    LET idx == get_index(self, row, column)
    IN  IF ~InBounds(self.cells, idx)
        THEN [self EXCEPT !.fault = "index_out_of_bounds"]
        ELSE [self EXCEPT !.cells = Put(self.cells, idx, birth(At(self.cells, idx)))]
toggle_cell(self, row, column) ==
    LET idx == get_index(self, row, column)
    IN  IF ~InBounds(self.cells, idx)
        THEN [self EXCEPT !.fault = "index_out_of_bounds"]
        ELSE [self EXCEPT !.cells = Put(self.cells, idx, toggle(At(self.cells, idx)))]

\* live_neighbor_count: the nine (delta_row, delta_col) pairs in the order of
\* the two loops; a pair is skipped when both of its deltas have the value 0.
delta_rows(self) == <<self.height - 1, 0, 1>>
delta_cols(self) == <<self.width - 1, 0, 1>>

RECURSIVE live_neighbor_count_from(_, _, _, _)
live_neighbor_count_from(self, row, column, k) ==
    IF k = 9 THEN 0
    ELSE LET delta_row == delta_rows(self)[(k \div 3) + 1]
             delta_col == delta_cols(self)[(k % 3) + 1]
             neighbor_row == (row + delta_row) % self.height
             neighbor_col == (column + delta_col) % self.width
             idx == get_index(self, neighbor_row, neighbor_col)
         IN  (IF delta_row = 0 /\ delta_col = 0 THEN 0 ELSE At(self.cells, idx))
             + live_neighbor_count_from(self, row, column, k + 1)
live_neighbor_count(self, row, column) ==
    live_neighbor_count_from(self, row, column, 0)

\* The match of tick, its arms in order.
next_cell(cell, live_neighbors) ==
    IF cell = Alive /\ live_neighbors < 2 THEN Dead
    ELSE IF cell = Alive /\ live_neighbors \in {2, 3} THEN Alive
    ELSE IF cell = Alive /\ live_neighbors > 3 THEN Dead
    ELSE IF cell = Dead /\ live_neighbors = 3 THEN Alive
    ELSE cell

\* tick: next starts as a clone of self.cells; every cell is read from
\* self.cells and written to next; next replaces self.cells at the end.
\* The write next[idx] is bounds-checked like every Vec index; idx is below
\* width * height, the length of next, for every (row, col) of the loops.
\* Faulty variant of tick_cols: cells are read from the buffer being written.
RECURSIVE tick_cols_in_place(_, _, _, _)
tick_cols_in_place(self, next, row, col) ==
    IF col >= self.width THEN next
    ELSE LET written == [self EXCEPT !.cells = next]
             idx == get_index(self, row, col)
             cell == At(next, idx)
             live_neighbors == live_neighbor_count(written, row, col)
         IN  IF ~InBounds(next, idx) THEN next
             ELSE tick_cols_in_place(self,
                                     Put(next, idx, next_cell(cell, live_neighbors)),
                                     row, col + 1)
RECURSIVE tick_cols(_, _, _, _)
tick_cols(self, next, row, col) ==
    IF col >= self.width THEN next
    ELSE LET idx == get_index(self, row, col)
             cell == At(self.cells, idx)
             live_neighbors == live_neighbor_count(self, row, col)
         IN  IF ~InBounds(next, idx) THEN next
             ELSE tick_cols(self, Put(next, idx, next_cell(cell, live_neighbors)),
                            row, col + 1)
RECURSIVE tick_rows(_, _, _)
tick_rows(self, next, row) ==
    IF row >= self.height THEN next
    ELSE tick_rows(self, tick_cols(self, next, row, 0), row + 1)
tick(self) == [self EXCEPT !.cells = tick_rows(self, self.cells, 0)]

\* gen_pulsar: what the loop body does to the cell at local (row, col).
\* Faulty variant of pulsar_cell: the last branch leaves the cell as it was.
pulsar_cell_gap(cell, row, col) ==
    IF row \in {1, 6, 11} THEN kill(cell)
    ELSE IF row \in {0, 5, 7, 12}
         THEN IF (col >= 2 /\ col <= 4) \/ (col >= 8 /\ col <= 10)
              THEN birth(cell) ELSE kill(cell)
         ELSE IF col \in {0, 5, 7, 12} THEN birth(cell) ELSE cell
pulsar_cell(cell, row, col) ==
    IF row \in {1, 6, 11} THEN kill(cell)
    ELSE IF row \in {0, 5, 7, 12}
         THEN IF (col >= 2 /\ col <= 4) \/ (col >= 8 /\ col <= 10)
              THEN birth(cell) ELSE kill(cell)
         ELSE IF col \in {0, 5, 7, 12} THEN birth(cell) ELSE kill(cell)

\* The inner loop of gen_pulsar, from local column col on, and the outer
\* loop from local row on; the first out-of-bounds index panics and the
\* cells written before it stay written.
RECURSIVE gen_pulsar_cols(_, _, _, _)
gen_pulsar_cols(self, index, row, col) ==
    IF col >= 13 \/ self.fault # "none" THEN self
    ELSE LET idx == index + row * self.width + col
         IN  IF ~InBounds(self.cells, idx)
             THEN [self EXCEPT !.fault = "index_out_of_bounds"]
             ELSE gen_pulsar_cols(
                      [self EXCEPT !.cells =
                          Put(self.cells, idx, pulsar_cell(At(self.cells, idx), row, col))],
                      index, row, col + 1)
RECURSIVE gen_pulsar_rows(_, _, _)
gen_pulsar_rows(self, index, row) ==
    IF row >= 13 \/ self.fault # "none" THEN self
    ELSE gen_pulsar_rows(gen_pulsar_cols(self, index, row, 0), index, row + 1)

\* gen_pulsar: get_row and get_col divide by self.width; the two
\* subtractions underflow for an index in the first six rows or columns.
gen_pulsar(self, index, checks) ==
    IF self.width = 0 THEN [self EXCEPT !.fault = "divide_by_zero"]
    ELSE LET start_row == get_row(self, index) - 6
             start_col == get_col(self, index) - 6
         IN  IF checks /\ (start_row < 0 \/ start_col < 0)
             THEN [self EXCEPT !.fault = "arithmetic_overflow"]
             ELSE gen_pulsar_rows(self, get_index(self, start_row, start_col), 0)

add_pulsar(self, row, column, checks) ==
    gen_pulsar(self, get_index(self, row, column), checks)

add_spaceship(self, row, column) == gen_spaceship(self, row, column)

(***************************************************************************)
(* The state machine.  A call that panics leaves the fault set; nothing is *)
(* called on the Universe after a panic.                                   *)
(***************************************************************************)
Self == Universe(width, height, cells, fault)
Snapshot == [width |-> width, height |-> height, cells |-> cells]
Call(op, args, list) == [op |-> op, args |-> args, list |-> list]

\* One call: the Universe becomes what the method leaves.
Step(c, after) ==
    /\ fault = "none"
    /\ call' = c
    /\ pre' = Snapshot
    /\ width' = after.width
    /\ height' = after.height
    /\ cells' = after.cells
    /\ fault' = after.fault
    /\ UNCHANGED overflow_checks

Init ==
    /\ width = new.width
    /\ height = new.height
    /\ cells = new.cells
    /\ fault = new.fault
    /\ overflow_checks \in BOOLEAN
    /\ call = Call("new", <<>>, <<>>)
    /\ pre = [width |-> new.width, height |-> new.height, cells |-> new.cells]
    /\ log = <<Call("new", <<>>, <<>>)>>

SetWidth(w) == Step(Call("set_width", <<w>>, <<>>), set_width(Self, w))
SetHeight(h) == Step(Call("set_height", <<h>>, <<>>), set_height(Self, h))
KillAll == Step(Call("kill_all", <<>>, <<>>), kill_all(Self))
SetCells(list) == Step(Call("set_cells", <<>>, list), set_cells(Self, list))
ToggleCell(row, column) ==
    Step(Call("toggle_cell", <<row, column>>, <<>>), toggle_cell(Self, row, column))
AddPulsar(row, column) ==
    Step(Call("add_pulsar", <<row, column>>, <<>>),
         add_pulsar(Self, row, column, overflow_checks))
AddSpaceship(row, column) ==
    Step(Call("add_spaceship", <<row, column>>, <<>>), add_spaceship(Self, row, column))
Tick == Step(Call("tick", <<>>, <<>>), tick(Self))

(***************************************************************************)
(* Spec: grids of at most MaxSide columns and rows and MaxCells cells,     *)
(* with every content.  The log is not kept.                               *)
(***************************************************************************)
NoLog == UNCHANGED log
Small == width * height <= MaxCells

\* The corners of the grid and the first position past each side.
Corners == {<<0, 0>>, <<height - 1, width - 1>>, <<0, width>>, <<height, 0>>}
    \cap (Nat \X Nat)
Lists == UNION {[1..n -> Corners] : n \in 0..MaxList}

Next ==
    \/ \E w \in 0..MaxSide : SetWidth(w) /\ NoLog
    \/ \E h \in 0..MaxSide : SetHeight(h) /\ NoLog
    \/ Small /\ KillAll /\ NoLog
    \/ Small /\ \E list \in Lists : SetCells(list) /\ NoLog
    \/ Small /\ \E row \in 0..height, column \in 0..width :
                   ToggleCell(row, column) /\ NoLog
    \/ Small /\ \E rc \in Corners : AddPulsar(rc[1], rc[2]) /\ NoLog
    \/ Small /\ \E rc \in Corners : AddSpaceship(rc[1], rc[2]) /\ NoLog
    \/ Small /\ Tick /\ NoLog

Spec == Init /\ [][Next]_vars

(***************************************************************************)
(* SpecStamps: the 64 x 64 seed grid and grids with sides LargeDim and 64, *)
(* in logged runs: a call that reallocates the buffer starts a run, which  *)
(* then holds at most MaxEdits stamps or toggles followed by at most       *)
(* MaxTicks generations.  A run is cut short by kill_all only before its   *)
(* first generation and by a resize only before its first stamp or toggle; *)
(* generations are run on grids of at most LargeDim * LargeDim cells.      *)
(***************************************************************************)
Clears == {"new", "set_width", "set_height", "kill_all"}
Edits == {"toggle_cell", "add_pulsar", "add_spaceship"}
Record == log' = IF call'.op \in Clears THEN <<call'>> ELSE Append(log, call')
Count(ops) == Cardinality({i \in 1..Len(log) : log[i].op \in ops})
MayResize == Len(log) = 1
MayClear == Count({"tick"}) = 0
MayEdit == Count(Edits) < MaxEdits /\ Count({"tick"}) = 0
MayTick == Count({"tick"}) < MaxTicks /\ width * height <= LargeDim * LargeDim

ToggleProbes == {<<1, 1>>}
PulsarAnchors == {<<6, 6>>, <<height - 7, width - 7>>, <<5, 6>>, <<6, width - 6>>}
SpaceshipAnchors == {<<0, 0>>, <<height - 4, width - 4>>, <<height - 3, 0>>}

NextStamps ==
    \/ MayResize /\ SetWidth(LargeDim) /\ Record
    \/ MayResize /\ SetHeight(LargeDim) /\ Record
    \/ MayClear /\ KillAll /\ Record
    \/ MayEdit /\ \E rc \in ToggleProbes : ToggleCell(rc[1], rc[2]) /\ Record
    \/ MayEdit /\ \E rc \in PulsarAnchors : AddPulsar(rc[1], rc[2]) /\ Record
    \/ MayEdit /\ \E rc \in SpaceshipAnchors : AddSpaceship(rc[1], rc[2]) /\ Record
    \/ MayTick /\ Tick /\ Record

SpecStamps == Init /\ [][NextStamps]_vars

(***************************************************************************)
(* Reference notions the properties are stated with.  None of them is used *)
(* by the model of the code above.                                         *)
(***************************************************************************)
\* The state of the cell at (row, col) of a grid g = [width, height, cells].
StateAt(g, row, col) == g.cells[row * g.width + col + 1]
Positions(g) == (0..(g.height - 1)) \X (0..(g.width - 1))
IsAllDead(c) == \A i \in 1..Len(c) : c[i] = Dead
Flip(state) == 1 - state

\* The eight positions around (row, col) on the torus, as offsets, and the
\* position an offset leads to.
Offsets == ({-1, 0, 1} \X {-1, 0, 1}) \ {<<0, 0>>}
Around(g, row, col, d) ==
    <<(row + d[1] + g.height) % g.height, (col + d[2] + g.width) % g.width>>
\* Live neighbours, one per offset: a position that wraps onto the cell
\* itself counts (as on the periodic plane) ...
LiveAround(g, row, col) ==
    Cardinality({d \in Offsets :
        StateAt(g, Around(g, row, col, d)[1], Around(g, row, col, d)[2]) = Alive})
\* ... or is left out.
LiveAroundOthers(g, row, col) ==
    Cardinality({d \in Offsets :
        /\ Around(g, row, col, d) # <<row, col>>
        /\ StateAt(g, Around(g, row, col, d)[1], Around(g, row, col, d)[2]) = Alive})

\* The B3/S23 rule.
B3S23(state, n) ==
    IF state = Alive /\ n \in {2, 3} THEN Alive
    ELSE IF state = Dead /\ n = 3 THEN Alive
    ELSE Dead
\* The simultaneous successor of g, live neighbours counted by LiveAround or
\* by LiveAroundOthers.
Successor(g) ==
    [i \in 1..Len(g.cells) |->
        B3S23(g.cells[i], LiveAround(g, (i - 1) \div g.width, (i - 1) % g.width))]
SuccessorOthers(g) ==
    [i \in 1..Len(g.cells) |->
        B3S23(g.cells[i], LiveAroundOthers(g, (i - 1) \div g.width, (i - 1) % g.width))]

\* The pulsar, by local row i and local column j of its 13 x 13 box.
PulsarShape(i, j) ==
    IF i \in {1, 6, 11} THEN Dead
    ELSE IF i \in {0, 5, 7, 12}
         THEN IF j \in {2, 3, 4, 8, 9, 10} THEN Alive ELSE Dead
         ELSE IF j \in {0, 5, 7, 12} THEN Alive ELSE Dead
Box == (0..12) \X (0..12)
ValidPulsarAnchor(g, row, col) ==
    6 <= row /\ row <= g.height - 7 /\ 6 <= col /\ col <= g.width - 7
\* The all-dead w x h grid with the pulsar stamped at anchor (row, col).
Stamped(w, h, row, col) ==
    [i \in 1..(w * h) |->
        LET r == ((i - 1) \div w) - (row - 6)
            c == ((i - 1) % w) - (col - 6)
        IN  IF r \in 0..12 /\ c \in 0..12 THEN PulsarShape(r, c) ELSE Dead]

\* The five cells of the spaceship at anchor (r, c), as indices of cells.
Five(g, r, c) ==
    {rc[1] * g.width + rc[2] + 1 :
        rc \in {<<r + 1, c + 2>>, <<r + 2, c + 3>>,
                <<r + 3, c + 1>>, <<r + 3, c + 2>>, <<r + 3, c + 3>>}}
ValidSpaceshipAnchor(g, r, c) == r + 3 < g.height /\ c + 3 < g.width

Returned == fault = "none"

(***************************************************************************)
(* C1: for every grid with width >= 1 and height >= 1, one tick replaces   *)
(* the grid by the simultaneous B3/S23 successor of the pre-tick grid,     *)
(* each cell decided from its own pre-tick state and the pre-tick states   *)
(* of its eight wrap-around neighbours.  Either way of counting a          *)
(* neighbour position that wraps onto the cell itself is accepted.         *)
(***************************************************************************)
C1_TickIsLifeSuccessor ==
    (call.op = "tick" /\ pre.width >= 1 /\ pre.height >= 1) =>
        /\ Returned
        /\ width = pre.width /\ height = pre.height
        /\ cells = Successor(pre) \/ cells = SuccessorOthers(pre)

\* On grids of at least two columns and two rows, where no neighbour
\* position wraps onto the cell itself, tick is the simultaneous successor.
TickOnProperTorus ==
    (call.op = "tick" /\ pre.width >= 2 /\ pre.height >= 2) =>
        Returned /\ cells = Successor(pre)
TickOnProperTorusReached ==
    /\ call.op = "tick" /\ pre.width >= 2 /\ pre.height >= 2
    /\ cells # pre.cells /\ ~IsAllDead(cells)

(***************************************************************************)
(* C2: in every reachable state the cell buffer holds exactly              *)
(* width * height entries.                                                 *)
(***************************************************************************)
C2_BufferIsWidthTimesHeight == Len(cells) = width * height

C2_ResizedBuffer ==
    /\ call.op = "set_height" /\ height # pre.height /\ width > 0
    /\ Len(cells) # Len(pre.cells)
    /\ Len(cells) = width * height

(***************************************************************************)
(* C3: set_width(w) leaves width = w, the height unchanged, w * height     *)
(* cells, all of them Dead; set_height(h) leaves the width unchanged,      *)
(* height = h, width * h cells, all of them Dead.                          *)
(***************************************************************************)
C3_ResizeClears ==
    /\ call.op = "set_width" =>
          /\ Returned
          /\ width = call.args[1] /\ height = pre.height
          /\ Len(cells) = call.args[1] * pre.height
          /\ IsAllDead(cells)
    /\ call.op = "set_height" =>
          /\ Returned
          /\ height = call.args[1] /\ width = pre.width
          /\ Len(cells) = pre.width * call.args[1]
          /\ IsAllDead(cells)

C3_ResizeOfLiveGrid ==
    /\ call.op = "set_width" /\ width # pre.width
    /\ ~IsAllDead(pre.cells)
    /\ Len(cells) > 0 /\ IsAllDead(cells)

(***************************************************************************)
(* C4: after add_pulsar at an anchor at least 6 cells from every edge, the *)
(* 13 x 13 box around the anchor holds exactly the pulsar, 48 cells Alive  *)
(* and 121 Dead, whatever the box held before.                             *)
(***************************************************************************)
C4_PulsarShape ==
    (call.op = "add_pulsar" /\ ValidPulsarAnchor(pre, call.args[1], call.args[2])) =>
        LET g == Snapshot
            top == call.args[1] - 6
            left == call.args[2] - 6
        IN  /\ Returned
            /\ \A ij \in Box :
                  StateAt(g, top + ij[1], left + ij[2]) = PulsarShape(ij[1], ij[2])
            /\ Cardinality({ij \in Box :
                  StateAt(g, top + ij[1], left + ij[2]) = Alive}) = 48
            /\ Cardinality({ij \in Box :
                  StateAt(g, top + ij[1], left + ij[2]) = Dead}) = 121

C4_PulsarOverPriorContent ==
    /\ call.op = "add_pulsar" /\ ValidPulsarAnchor(pre, call.args[1], call.args[2])
    /\ Returned
    /\ \E ij \in Box :
          /\ StateAt(pre, call.args[1] - 6 + ij[1], call.args[2] - 6 + ij[2]) = Alive
          /\ StateAt(Snapshot, call.args[1] - 6 + ij[1], call.args[2] - 6 + ij[2]) = Dead
    /\ \E ij \in Box :
          /\ StateAt(pre, call.args[1] - 6 + ij[1], call.args[2] - 6 + ij[2]) = Dead
          /\ StateAt(Snapshot, call.args[1] - 6 + ij[1], call.args[2] - 6 + ij[2]) = Alive

(***************************************************************************)
(* C5: add_spaceship(r, c) with r + 3 < height and c + 3 < width makes the *)
(* five cells (r+1,c+2), (r+2,c+3), (r+3,c+1), (r+3,c+2), (r+3,c+3) Alive  *)
(* and leaves every other cell, the width and the height unchanged; on an  *)
(* all-dead grid exactly those five cells are Alive afterwards.            *)
(***************************************************************************)
C5_SpaceshipStamp ==
    (call.op = "add_spaceship" /\ ValidSpaceshipAnchor(pre, call.args[1], call.args[2])) =>
        LET five == Five(pre, call.args[1], call.args[2])
        IN  /\ Returned
            /\ width = pre.width /\ height = pre.height
            /\ Len(cells) = Len(pre.cells)
            /\ \A i \in 1..Len(cells) :
                  cells[i] = IF i \in five THEN Alive ELSE pre.cells[i]
            /\ IsAllDead(pre.cells) =>
                  /\ {i \in 1..Len(cells) : cells[i] = Alive} = five
                  /\ Cardinality({i \in 1..Len(cells) : cells[i] = Alive}) = 5

C5_SpaceshipOnDeadGrid ==
    /\ call.op = "add_spaceship"
    /\ ValidSpaceshipAnchor(pre, call.args[1], call.args[2])
    /\ Returned
    /\ IsAllDead(pre.cells)
    /\ Cardinality({i \in 1..Len(cells) : cells[i] = Alive}) = 5

(***************************************************************************)
(* C6: one toggle_cell(r, c) with (r, c) in range flips the state of cell  *)
(* (r, c) and changes no other cell, and the second of two consecutive     *)
(* toggle_cell(r, c) calls returns the grid to the state it had before the *)
(* first.                                                                  *)
(***************************************************************************)
C6_ToggleFlipsOneCell ==
    [][(call'.op = "toggle_cell" /\ call'.args[1] < height /\ call'.args[2] < width) =>
          /\ fault' = "none"
          /\ width' = width /\ height' = height
          /\ Len(cells') = Len(cells)
          /\ \A i \in 1..Len(cells) :
                cells'[i] = IF i = call'.args[1] * width + call'.args[2] + 1
                            THEN Flip(cells[i]) ELSE cells[i]
          /\ (call = call' /\ pre.width = width /\ pre.height = height) =>
                cells' = pre.cells
      ]_vars

C6_ToggledAndBack ==
    /\ call.op = "toggle_cell" /\ call.args[1] < pre.height /\ call.args[2] < pre.width
    /\ Returned
    /\ cells # pre.cells
    /\ ENABLED (ToggleCell(call.args[1], call.args[2]) /\ NoLog /\ cells' = pre.cells)

(***************************************************************************)
(* C7: new() yields width = height = 64 and 4096 cells, the cell at index  *)
(* i Alive if and only if i % 2 = 0 or i % 7 = 0; so the cells at indices  *)
(* 0, 2, 6, 7, 8, 14 and 63 are Alive and the cell at index 1 is Dead.     *)
(***************************************************************************)
C7_SeedPattern ==
    call.op = "new" =>
        /\ Returned
        /\ width = 64 /\ height = 64 /\ Len(cells) = 4096
        /\ \A i \in 0..4095 : (cells[i + 1] = Alive) <=> (i % 14 \in {0, 2, 4, 6, 7, 8, 10, 12})
        /\ \A i \in {0, 2, 6, 7, 8, 14, 63} : cells[i + 1] = Alive
        /\ cells[1 + 1] = Dead

C7_Seeded ==
    /\ call.op = "new" /\ width = 64 /\ height = 64
    /\ cells[7 + 1] = Alive /\ cells[63 + 1] = Alive /\ cells[1 + 1] = Dead

(***************************************************************************)
(* C8: every call with an out-of-range position ends in a fault and never  *)
(* completes normally: toggle_cell or a set_cells pair with row >= height  *)
(* or col >= width, add_pulsar with an anchor within 6 cells of an edge,   *)
(* add_spaceship with an anchor whose five offsets leave the grid.         *)
(***************************************************************************)
OutOfRange(c, g) ==
    \/ c.op = "toggle_cell" /\ (c.args[1] >= g.height \/ c.args[2] >= g.width)
    \/ c.op = "set_cells" /\
          \E k \in 1..Len(c.list) : c.list[k][1] >= g.height \/ c.list[k][2] >= g.width
    \/ c.op = "add_pulsar" /\ ~ValidPulsarAnchor(g, c.args[1], c.args[2])
    \/ c.op = "add_spaceship" /\ ~ValidSpaceshipAnchor(g, c.args[1], c.args[2])

C8_OutOfRangeCallFaults == OutOfRange(call, pre) => fault # "none"

(***************************************************************************)
(* C9: on a grid of at least 19 columns and 19 rows cleared by kill_all    *)
(* (or by a resize, which leaves the same all-dead buffer), the grid three *)
(* ticks after add_pulsar at a valid anchor equals the grid right after    *)
(* the stamp, and the grids one and two ticks after it differ from it.     *)
(***************************************************************************)
\* The log is a clear, a stamp at a valid anchor, and k ticks.
PulsarRun(k) ==
    /\ Len(log) = k + 2
    /\ log[1].op \in {"kill_all", "set_width", "set_height"}
    /\ log[2].op = "add_pulsar"
    /\ ValidPulsarAnchor(Snapshot, log[2].args[1], log[2].args[2])
    /\ \A i \in 3..(k + 2) : log[i].op = "tick"
    /\ width >= 19 /\ height >= 19
AfterStamp == Stamped(width, height, log[2].args[1], log[2].args[2])

C9_PulsarHasPeriodThree ==
    /\ PulsarRun(0) => Returned /\ cells = AfterStamp
    /\ PulsarRun(1) => Returned /\ cells # AfterStamp
    /\ PulsarRun(2) => Returned /\ cells # AfterStamp
    /\ PulsarRun(3) => Returned /\ cells = AfterStamp

C9_ThirdGeneration == PulsarRun(3) /\ Returned /\ cells = AfterStamp

(***************************************************************************)
(* C10: on every grid with width >= 1 and height >= 1 and for every        *)
(* (row, col) in range, live_neighbor_count(row, col) does not count the   *)
(* cell (row, col) itself: flipping that cell does not change it.          *)
(***************************************************************************)
Flipped(self, row, col) ==
    [self EXCEPT !.cells[row * self.width + col + 1] = Flip(@)]

C10_NeverCountsItself ==
    (Returned /\ width >= 1 /\ height >= 1) =>
        \A rc \in Positions(Self) :
            live_neighbor_count(Self, rc[1], rc[2])
                = live_neighbor_count(Flipped(Self, rc[1], rc[2]), rc[1], rc[2])

\* With at least two columns and two rows the cell is not counted.
NeverCountsItselfOnProperTorus ==
    (Returned /\ width >= 2 /\ height >= 2 /\ Small) =>
        \A rc \in Positions(Self) :
            /\ live_neighbor_count(Self, rc[1], rc[2])
                  = live_neighbor_count(Flipped(Self, rc[1], rc[2]), rc[1], rc[2])
            /\ live_neighbor_count(Self, rc[1], rc[2]) = LiveAround(Self, rc[1], rc[2])

====
